---- MODULE Spec2Model ----
(***************************************************************************)
(* A model of libotr's connection-context store (src/context.c): the      *)
(* registry of ConnContexts kept sorted by (username, accountname,        *)
(* protocol), the per-context fingerprint list, the three-state           *)
(* connection state machine and the destruction operations.               *)
(*                                                                         *)
(* Memory is modelled explicitly: contexts and fingerprints live in two   *)
(* heaps of cells addressed by positive integers, NULL is 0, and a        *)
(* pointer-to-pointer (the `tous' back-reference, the scan cursor `curp') *)
(* is a slot: the name of the pointer field it is the address of.         *)
(***************************************************************************)
EXTENDS Integers, Sequences, FiniteSets, TLC

VARIABLES
    context_root,   \* us->context_root: address of the first context, or NULL
    contexts,       \* the heap of ConnContext cells
    fingerprints,   \* the heap of Fingerprint cells
    last            \* what the last call did

vars == <<context_root, contexts, fingerprints, last>>

----------------------------------------------------------------------------
(* Bounds of the model *)

\* Number of ConnContexts the heap can hold at a time.
MaxContexts == 3
\* Number of Fingerprints the heap can hold at a time.
MaxFingerprints == 2

----------------------------------------------------------------------------
(* Constants of the program *)

NULL == 0
\* A fingerprint is 20 bytes.
FingerprintLen == 20

CONN_UNCONNECTED == "CONN_UNCONNECTED"
CONN_SETUP == "CONN_SETUP"
CONN_CONNECTED == "CONN_CONNECTED"
ConnStates == {CONN_UNCONNECTED, CONN_SETUP, CONN_CONNECTED}
OFFER_NOT == "OFFER_NOT"
OFFER_SENT == "OFFER_SENT"

\* A C string is the sequence of its bytes (without the terminator); the
\* NULL char pointer is the one-element sequence <<-1>>, which is no string.
NullStr == << -1 >>

----------------------------------------------------------------------------
(* Inputs the calls are made with *)

\* Four identities, in the order (4) < (1) < (2) < (3): (1) and (2) differ
\* in the protocol only, one being a prefix of the other; (3) has the
\* greater username and a lesser accountname; (4) has the lesser
\* accountname and a greater protocol.
TripleSeq ==
    << <<<<1>>, <<2>>, <<1>>>>,
       <<<<1>>, <<2>>, <<1, 1>>>>,
       <<<<1, 2>>, <<1>>, <<1>>>>,
       <<<<1>>, <<1>>, <<2>>>> >>
Triples == {TripleSeq[i] : i \in 1..Len(TripleSeq)}

\* Three 20-byte values: F2 differs from F1 in the last byte only, F3 in
\* the first byte only.
FpBytes1 == [i \in 1..FingerprintLen |-> 1]
FpBytes2 == [i \in 1..FingerprintLen |-> IF i = FingerprintLen THEN 2 ELSE 1]
FpBytes3 == [i \in 1..FingerprintLen |-> IF i = 1 THEN 2 ELSE 1]
FpSeq == <<FpBytes1, FpBytes2, FpBytes3>>
FpValues == {FpSeq[i] : i \in 1..Len(FpSeq)}

\* The heaps' cells.  The program compares addresses for equality only, so
\* which unused cell an allocation returns cannot be observed; the
\* allocator below gives every identity, and every fingerprint value of a
\* context, a cell of its own.
ContextAddrs == 1..Len(TripleSeq)
FingerprintAddrs == 1..(Len(TripleSeq) * Len(FpSeq))

TrustLabels == {<<1>>}

----------------------------------------------------------------------------
(* libc *)

\* strcmp: the sign of the first differing byte, a proper prefix being less.
RECURSIVE strcmp(_, _)
strcmp(s1, s2) ==
    IF s1 = <<>> /\ s2 = <<>> THEN 0
    ELSE IF s1 = <<>> THEN -1
    ELSE IF s2 = <<>> THEN 1
    ELSE IF Head(s1) < Head(s2) THEN -1
    ELSE IF Head(s1) > Head(s2) THEN 1
    ELSE strcmp(Tail(s1), Tail(s2))

\* memcmp over the first n bytes.
RECURSIVE memcmp_from(_, _, _, _)
memcmp_from(b1, b2, i, n) ==
    IF i > n THEN 0
    ELSE IF b1[i] < b2[i] THEN -1
    ELSE IF b1[i] > b2[i] THEN 1
    ELSE memcmp_from(b1, b2, i + 1, n)

memcmp(b1, b2, n) == memcmp_from(b1, b2, 1, n)

\* strdup and memmove copy the bytes.
strdup(s) == [i \in 1..Len(s) |-> s[i]]
memmove(b, n) == [i \in 1..n |-> b[i]]

----------------------------------------------------------------------------
(* Pointers to pointers *)

NullSlot == [k |-> "NULL", a |-> NULL]
\* &(us->context_root)
ContextRootSlot == [k |-> "context_root", a |-> NULL]
\* &(contexts[c].next)
ContextNextSlot(c) == [k |-> "context.next", a |-> c]
\* &(contexts[c].fingerprint_root.next)
FingerprintRootNextSlot(c) == [k |-> "fingerprint_root.next", a |-> c]
\* &(fingerprints[f].next)
FingerprintNextSlot(f) == [k |-> "fingerprint.next", a |-> f]

\* A Fingerprint pointer: the sentinel embedded in context c, or heap cell f.
NullFp == [sentinel |-> FALSE, a |-> NULL]
RootFp(c) == [sentinel |-> TRUE, a |-> c]
HeapFp(f) == [sentinel |-> FALSE, a |-> f]

----------------------------------------------------------------------------
(* Cells *)

\* An otrl DH key pair, by its two owned values priv and pub, and its blank
\* value.  (groupid, a tag that context.c sets to 0 at creation and never
\* reads, is left out.)
BlankKeypair == [priv |-> NULL, pub |-> NULL]
\* A session-key slot is blank (0) or holds keys (1).
BlankSession == 0
BlankSesskeys == <<<<BlankSession, BlankSession>>, <<BlankSession, BlankSession>>>>

\* The ConnContext new_context builds, at address self.
NewContextCell(self, user, accountname, protocol) ==
    [alloc |-> TRUE,
     username |-> strdup(user),
     accountname |-> strdup(accountname),
     protocol |-> strdup(protocol),
     state |-> CONN_UNCONNECTED,
     fingerprint_root |-> [fingerprint |-> NULL, context |-> self,
                           next |-> NULL, tous |-> NullSlot],
     active_fingerprint |-> NULL,
     their_keyid |-> 0,
     their_y |-> NULL,
     their_old_y |-> NULL,
     our_keyid |-> 0,
     our_dh_key |-> BlankKeypair,
     our_old_dh_key |-> BlankKeypair,
     sesskeys |-> BlankSesskeys,
     sessionid |-> 0,
     numsavedkeys |-> 0,
     preshared_secret |-> NULL,
     preshared_secret_len |-> 0,
     saved_mac_keys |-> NULL,
     generation |-> 0,
     lastsent |-> 0,
     lastmessage |-> NULL,
     may_retransmit |-> 0,
     otr_offer |-> OFFER_NOT,
     app_data |-> NULL,
     app_data_free |-> NULL,
     next |-> NULL,
     tous |-> NullSlot]

\* A context cell that is not allocated (never was, or was freed).
FreeContext ==
    [NewContextCell(NULL, <<>>, <<>>, <<>>) EXCEPT !.alloc = FALSE]

\* A fingerprint cell that is not allocated.
FreeFingerprint ==
    [alloc |-> FALSE, fingerprint |-> <<>>, context |-> NULL,
     trust |-> NullStr, next |-> NULL, tous |-> NullSlot]

\* The memory the operations work on: the registry head, the two heaps, and
\* the calls made to the application's callbacks (add_app_data with a
\* context, app_data_free for a context's app_data), in order; diverged is
\* set when a loop of the call does not end.
Mem == [root |-> context_root, ctx |-> contexts, fp |-> fingerprints,
        added |-> <<>>, freed |-> <<>>, diverged |-> FALSE]

\* *slot, for a slot holding a ConnContext pointer.
LoadContextSlot(M, slot) ==
    IF slot.k = "context_root" THEN M.root ELSE M.ctx[slot.a].next

\* *slot = v, for a slot holding a ConnContext pointer.
StoreContextSlot(M, slot, v) ==
    IF slot.k = "context_root" THEN [M EXCEPT !.root = v]
    ELSE [M EXCEPT !.ctx[slot.a].next = v]

\* *slot = v, for a slot holding a Fingerprint pointer.
StoreFingerprintSlot(M, slot, v) ==
    IF slot.k = "fingerprint_root.next"
    THEN [M EXCEPT !.ctx[slot.a].fingerprint_root.next = v]
    ELSE [M EXCEPT !.fp[slot.a].next = v]

\* malloc of a cell: an unused cell (the callers' guards keep the number
\* of cells in use within the bounds).
LiveContexts(M) == {a \in ContextAddrs : M.ctx[a].alloc}
LiveFingerprints(M) == {a \in FingerprintAddrs : M.fp[a].alloc}
MallocContext(M, user, accountname, protocol) ==
    LET own == CHOOSE i \in 1..Len(TripleSeq) :
                   TripleSeq[i] = <<user, accountname, protocol>>
    IN  IF ~M.ctx[own].alloc THEN own
        ELSE CHOOSE a \in ContextAddrs : ~M.ctx[a].alloc
MallocFingerprint(M, context, fingerprint) ==
    LET own == (context - 1) * Len(FpSeq)
               + (CHOOSE i \in 1..Len(FpSeq) : FpSeq[i] = fingerprint)
    IN  IF ~M.fp[own].alloc THEN own
        ELSE CHOOSE a \in FingerprintAddrs : ~M.fp[a].alloc

----------------------------------------------------------------------------
(* new_context *)

\* Allocates a context and returns the memory with it and its address.
new_context(M, user, accountname, protocol) ==
    LET context == MallocContext(M, user, accountname, protocol) IN
    [mem |-> [M EXCEPT !.ctx[context] =
                  NewContextCell(context, user, accountname, protocol)],
     ret |-> context]

----------------------------------------------------------------------------
(* otrl_context_find *)

\* A scan that passes over an entry with an equal protocol.
ProtocolStops_Strict(protocmp) == protocmp > 0

\* The third disjunct's test of the scan: stop at an entry whose protocol
\* is equal or greater.
ProtocolStops(protocmp) == protocmp >= 0

\* The scan of the registry from slot curp.  usercmp, acctcmp and protocmp
\* are the function's variables: a comparison the short-circuit skips
\* leaves the variable with its earlier value.
RECURSIVE ScanContexts(_, _, _, _, _, _, _, _)
ScanContexts(M, curp, usercmp, acctcmp, protocmp, user, accountname, protocol) ==
    LET cur == LoadContextSlot(M, curp) IN
    IF cur = NULL
    THEN [curp |-> curp, usercmp |-> usercmp, acctcmp |-> acctcmp,
          protocmp |-> protocmp]
    ELSE
        LET uc == strcmp(M.ctx[cur].username, user)
            ac == IF uc = 0 THEN strcmp(M.ctx[cur].accountname, accountname)
                  ELSE acctcmp
            pc == IF uc = 0 /\ ac = 0
                  THEN strcmp(M.ctx[cur].protocol, protocol)
                  ELSE protocmp
        IN  IF \/ uc > 0
               \/ (uc = 0 /\ ac > 0)
               \/ (uc = 0 /\ ac = 0 /\ ProtocolStops(pc))
            THEN [curp |-> curp, usercmp |-> uc, acctcmp |-> ac,
                  protocmp |-> pc]
            ELSE ScanContexts(M, ContextNextSlot(cur), uc, ac, pc,
                              user, accountname, protocol)

\* What the application's add_app_data callback does with the new context.
AppCallbacks == {"NULL", "attach", "data_only"}
add_app_data(M, cb, context) ==
    LET M1 == [M EXCEPT !.added = Append(@, context)] IN
    IF cb = "attach"
    THEN [M1 EXCEPT !.ctx[context].app_data = 1,
                    !.ctx[context].app_data_free = 1]
    ELSE [M1 EXCEPT !.ctx[context].app_data = 1]

\* The splice of a new context at slot curp.
InsertContext(M, curp, user, accountname, protocol, cb) ==
    LET N == new_context(M, user, accountname, protocol)
        newctx == N.ret
        cur == LoadContextSlot(M, curp)
        M1 == [N.mem EXCEPT !.ctx[newctx].next = cur]
        M2 == IF cur # NULL
              THEN [M1 EXCEPT !.ctx[cur].tous = ContextNextSlot(newctx)]
              ELSE M1
        M3 == StoreContextSlot(M2, curp, newctx)
        M4 == [M3 EXCEPT !.ctx[newctx].tous = curp]
        M5 == IF cb # "NULL"
              THEN add_app_data(M4, cb, LoadContextSlot(M4, curp))
              ELSE M4
    IN  [mem |-> M5, ret |-> LoadContextSlot(M5, curp), addedp |-> 1]

\* A found-test that looks at the username only.
Found_UserOnly(S) == S.usercmp = 0

\* The test made after the scan: the entry at the cursor is the one asked.
Found(S) == S.usercmp = 0 /\ S.acctcmp = 0 /\ S.protocmp = 0

\* Returns the memory, the context returned (or NULL) and *addedp.
otrl_context_find(M, user, accountname, protocol, add_if_missing, cb) ==
    IF user = NullStr \/ accountname = NullStr \/ protocol = NullStr
    THEN [mem |-> M, ret |-> NULL, addedp |-> 0]
    ELSE
        LET S == ScanContexts(M, ContextRootSlot, 1, 1, 1,
                              user, accountname, protocol)
        IN  IF Found(S)
            THEN [mem |-> M, ret |-> LoadContextSlot(M, S.curp), addedp |-> 0]
            ELSE IF add_if_missing
            THEN InsertContext(M, S.curp, user, accountname, protocol, cb)
            ELSE [mem |-> M, ret |-> NULL, addedp |-> 0]

\* Whether the call allocates: the triple is absent and creation is asked.
FindAllocates(M, user, accountname, protocol, add_if_missing) ==
    /\ add_if_missing
    /\ user # NullStr /\ accountname # NullStr /\ protocol # NullStr
    /\ LET S == ScanContexts(M, ContextRootSlot, 1, 1, 1,
                             user, accountname, protocol)
       IN ~Found(S)

----------------------------------------------------------------------------
(* otrl_context_find_fingerprint *)

\* A comparison that leaves out the last byte.
SameFingerprint_Short(stored, fingerprint) ==
    memcmp(stored, fingerprint, FingerprintLen - 1) = 0

\* Whether a stored fingerprint equals the one looked for.
SameFingerprint(stored, fingerprint) ==
    memcmp(stored, fingerprint, FingerprintLen) = 0

\* The scan of a fingerprint chain from cell f: the first cell whose bytes
\* match, or NULL.
RECURSIVE ScanFingerprints(_, _, _)
ScanFingerprints(M, f, fingerprint) ==
    IF f = NULL THEN NULL
    ELSE IF SameFingerprint(M.fp[f].fingerprint, fingerprint) THEN f
    ELSE ScanFingerprints(M, M.fp[f].next, fingerprint)

\* An insert that leaves the back-reference of the entry that was first.
InsertFingerprint_NoRepair(M, context, fingerprint) ==
    LET f == MallocFingerprint(M, context, fingerprint)
        first == M.ctx[context].fingerprint_root.next
    IN  [M EXCEPT !.fp[f] =
                      [alloc |-> TRUE,
                       fingerprint |-> memmove(fingerprint, FingerprintLen),
                       context |-> context,
                       trust |-> NullStr,
                       next |-> first,
                       tous |-> FingerprintRootNextSlot(context)],
                  !.ctx[context].fingerprint_root.next = f]

\* The new entry, linked at the front of context's chain.
InsertFingerprint(M, context, fingerprint) ==
    LET f == MallocFingerprint(M, context, fingerprint)
        first == M.ctx[context].fingerprint_root.next
        M1 == [M EXCEPT !.fp[f] =
                  [alloc |-> TRUE,
                   fingerprint |-> memmove(fingerprint, FingerprintLen),
                   context |-> context,
                   trust |-> NullStr,
                   next |-> first,
                   tous |-> NullSlot]]
        M2 == IF first # NULL
              THEN [M1 EXCEPT !.fp[first].tous = FingerprintNextSlot(f)]
              ELSE M1
        M3 == [M2 EXCEPT !.ctx[context].fingerprint_root.next = f]
    IN  [M3 EXCEPT !.fp[f].tous = FingerprintRootNextSlot(context)]

\* Returns the memory, the entry returned (or NULL) and *addedp.
otrl_context_find_fingerprint(M, context, fingerprint, add_if_missing) ==
    LET f == ScanFingerprints(M, M.ctx[context].fingerprint_root.next,
                              fingerprint)
    IN  IF f # NULL THEN [mem |-> M, ret |-> f, addedp |-> 0]
        ELSE IF add_if_missing
        THEN [mem |-> InsertFingerprint(M, context, fingerprint),
              ret |-> MallocFingerprint(M, context, fingerprint),
              addedp |-> 1]
        ELSE [mem |-> M, ret |-> NULL, addedp |-> 0]

----------------------------------------------------------------------------
(* otrl_context_set_trust, otrl_context_set_preshared_secret *)

\* fprint is a heap cell's address or NULL; trust is a string or NullStr.
\* A set_trust that labels the first entry of fprint's context.
otrl_context_set_trust_Head(M, fprint, trust) ==
    IF fprint = NULL THEN M
    ELSE [M EXCEPT !.fp[M.ctx[M.fp[fprint].context].fingerprint_root.next]
                        .trust =
              IF trust # NullStr THEN strdup(trust) ELSE NullStr]

otrl_context_set_trust(M, fprint, trust) ==
    IF fprint = NULL THEN M
    ELSE [M EXCEPT !.fp[fprint].trust =
              IF trust # NullStr THEN strdup(trust) ELSE NullStr]

\* A set_preshared_secret that takes the context back to SETUP when it
\* stores a secret.
otrl_context_set_preshared_secret_Downgrades(M, context, secret_len, malloc_ok) ==
    LET M1 == [M EXCEPT !.ctx[context].preshared_secret = NULL,
                        !.ctx[context].preshared_secret_len = 0]
    IN  IF secret_len # 0 /\ malloc_ok
        THEN [M1 EXCEPT !.ctx[context].preshared_secret = 1,
                        !.ctx[context].preshared_secret_len = secret_len,
                        !.ctx[context].state = CONN_SETUP]
        ELSE M1

\* malloc_ok: whether the allocation of the copy succeeds.
otrl_context_set_preshared_secret(M, context, secret_len, malloc_ok) ==
    LET M1 == [M EXCEPT !.ctx[context].preshared_secret = NULL,
                        !.ctx[context].preshared_secret_len = 0]
    IN  IF secret_len # 0 /\ malloc_ok
        THEN [M1 EXCEPT !.ctx[context].preshared_secret = 1,
                        !.ctx[context].preshared_secret_len = secret_len]
        ELSE M1

----------------------------------------------------------------------------
(* The release primitives of the collaborators (dh.c, libgcrypt) *)

\* gcry_mpi_release(p); p = NULL
gcry_mpi_release(p) == NULL
\* otrl_dh_session_free: the slot is blank afterwards.
otrl_dh_session_free(sess) == BlankSession
\* otrl_dh_keypair_free: both halves released and absent.
otrl_dh_keypair_free(kp) == [kp EXCEPT !.priv = NULL, !.pub = NULL]

----------------------------------------------------------------------------
(* otrl_context_force_setup, otrl_context_force_disconnect *)

\* A force_setup that leaves the preshared secret and the saved MAC keys.
otrl_context_force_setup_Partial(M, context) ==
    [M EXCEPT !.ctx[context] =
        [@ EXCEPT !.state = CONN_SETUP,
                  !.active_fingerprint = NULL,
                  !.their_keyid = 0,
                  !.their_y = gcry_mpi_release(@),
                  !.their_old_y = gcry_mpi_release(@),
                  !.sesskeys =
                      <<<<otrl_dh_session_free(@[1][1]),
                          otrl_dh_session_free(@[1][2])>>,
                        <<otrl_dh_session_free(@[2][1]),
                          otrl_dh_session_free(@[2][2])>>>>,
                  !.sessionid = 0,
                  !.lastmessage = NULL,
                  !.may_retransmit = 0]]

\* A force_setup that resets our key id as well.
otrl_context_force_setup_ResetsOurKeyid(M, context) ==
    [M EXCEPT !.ctx[context] =
        [@ EXCEPT !.state = CONN_SETUP,
                  !.active_fingerprint = NULL,
                  !.their_keyid = 0,
                  !.our_keyid = 0,
                  !.their_y = gcry_mpi_release(@),
                  !.their_old_y = gcry_mpi_release(@),
                  !.sesskeys =
                      <<<<otrl_dh_session_free(@[1][1]),
                          otrl_dh_session_free(@[1][2])>>,
                        <<otrl_dh_session_free(@[2][1]),
                          otrl_dh_session_free(@[2][2])>>>>,
                  !.sessionid = 0,
                  !.preshared_secret = NULL,
                  !.preshared_secret_len = 0,
                  !.numsavedkeys = 0,
                  !.saved_mac_keys = NULL,
                  !.lastmessage = NULL,
                  !.may_retransmit = 0]]

\* A force_setup that leaves the retransmit flag as it was.
otrl_context_force_setup_KeepsRetransmit(M, context) ==
    [M EXCEPT !.ctx[context] =
        [@ EXCEPT !.state = CONN_SETUP,
                  !.active_fingerprint = NULL,
                  !.their_keyid = 0,
                  !.their_y = gcry_mpi_release(@),
                  !.their_old_y = gcry_mpi_release(@),
                  !.sesskeys =
                      <<<<otrl_dh_session_free(@[1][1]),
                          otrl_dh_session_free(@[1][2])>>,
                        <<otrl_dh_session_free(@[2][1]),
                          otrl_dh_session_free(@[2][2])>>>>,
                  !.sessionid = 0,
                  !.preshared_secret = NULL,
                  !.preshared_secret_len = 0,
                  !.numsavedkeys = 0,
                  !.saved_mac_keys = NULL,
                  !.lastmessage = NULL]]

\* A force_setup that leaves active_fingerprint as it was.
otrl_context_force_setup_KeepsActive(M, context) ==
    [M EXCEPT !.ctx[context] =
        [@ EXCEPT !.state = CONN_SETUP,
                  !.their_keyid = 0,
                  !.their_y = gcry_mpi_release(@),
                  !.their_old_y = gcry_mpi_release(@),
                  !.sesskeys =
                      <<<<otrl_dh_session_free(@[1][1]),
                          otrl_dh_session_free(@[1][2])>>,
                        <<otrl_dh_session_free(@[2][1]),
                          otrl_dh_session_free(@[2][2])>>>>,
                  !.sessionid = 0,
                  !.preshared_secret = NULL,
                  !.preshared_secret_len = 0,
                  !.numsavedkeys = 0,
                  !.saved_mac_keys = NULL,
                  !.lastmessage = NULL,
                  !.may_retransmit = 0]]

\* A force_setup that moves the peer's current public value to the previous
\* one, as a key rotation does, instead of releasing both.
otrl_context_force_setup_Rotates(M, context) ==
    [M EXCEPT !.ctx[context] =
        [@ EXCEPT !.state = CONN_SETUP,
                  !.active_fingerprint = NULL,
                  !.their_keyid = 0,
                  !.their_old_y = M.ctx[context].their_y,
                  !.their_y = gcry_mpi_release(@),
                  !.sesskeys =
                      <<<<otrl_dh_session_free(@[1][1]),
                          otrl_dh_session_free(@[1][2])>>,
                        <<otrl_dh_session_free(@[2][1]),
                          otrl_dh_session_free(@[2][2])>>>>,
                  !.sessionid = 0,
                  !.preshared_secret = NULL,
                  !.preshared_secret_len = 0,
                  !.numsavedkeys = 0,
                  !.saved_mac_keys = NULL,
                  !.lastmessage = NULL,
                  !.may_retransmit = 0]]

otrl_context_force_setup(M, context) ==
    [M EXCEPT !.ctx[context] =
        [@ EXCEPT !.state = CONN_SETUP,
                  !.active_fingerprint = NULL,
                  !.their_keyid = 0,
                  !.their_y = gcry_mpi_release(@),
                  !.their_old_y = gcry_mpi_release(@),
                  !.sesskeys =
                      <<<<otrl_dh_session_free(@[1][1]),
                          otrl_dh_session_free(@[1][2])>>,
                        <<otrl_dh_session_free(@[2][1]),
                          otrl_dh_session_free(@[2][2])>>>>,
                  !.sessionid = 0,
                  !.preshared_secret = NULL,
                  !.preshared_secret_len = 0,
                  !.numsavedkeys = 0,
                  !.saved_mac_keys = NULL,
                  !.lastmessage = NULL,
                  !.may_retransmit = 0]]

\* A force_disconnect that does not go through force_setup.
otrl_context_force_disconnect_OursOnly(M, context) ==
    [M EXCEPT !.ctx[context] =
        [@ EXCEPT !.state = CONN_UNCONNECTED,
                  !.our_keyid = 0,
                  !.our_dh_key = otrl_dh_keypair_free(@),
                  !.our_old_dh_key = otrl_dh_keypair_free(@)]]

\* A force_disconnect that releases our current key pair only.
otrl_context_force_disconnect_KeepsOld(M, context) ==
    LET M1 == otrl_context_force_setup(M, context) IN
    [M1 EXCEPT !.ctx[context] =
        [@ EXCEPT !.state = CONN_UNCONNECTED,
                  !.our_keyid = 0,
                  !.our_dh_key = otrl_dh_keypair_free(@)]]

otrl_context_force_disconnect(M, context) ==
    LET M1 == otrl_context_force_setup(M, context) IN
    [M1 EXCEPT !.ctx[context] =
        [@ EXCEPT !.state = CONN_UNCONNECTED,
                  !.our_keyid = 0,
                  !.our_dh_key = otrl_dh_keypair_free(@),
                  !.our_old_dh_key = otrl_dh_keypair_free(@)]]

----------------------------------------------------------------------------
(* otrl_context_forget_fingerprint, otrl_context_forget *)

\* fprint->context
FingerprintContext(M, fprint) ==
    IF fprint.sentinel THEN M.ctx[fprint.a].fingerprint_root.context
    ELSE M.fp[fprint.a].context

\* A guard that protects the active entry of a context in SETUP.
MayRemove_WrongState(M, context, f) ==
    \/ M.ctx[context].state # CONN_SETUP
    \/ M.ctx[context].active_fingerprint # f

\* The guard of a real entry's removal.
MayRemove(M, context, f) ==
    \/ M.ctx[context].state # CONN_CONNECTED
    \/ M.ctx[context].active_fingerprint # f

\* The entry at heap cell f unlinked and freed.
UnlinkFingerprint(M, f) ==
    LET next == M.fp[f].next
        M1 == StoreFingerprintSlot(M, M.fp[f].tous, next)
        M2 == IF next # NULL
              THEN [M1 EXCEPT !.fp[next].tous = M.fp[f].tous]
              ELSE M1
    IN  [M2 EXCEPT !.fp[f] = FreeFingerprint]

\* An unlink that leaves the successor's back-reference as it was.
UnlinkContext_NoRepair(M, context) ==
    LET M1 == StoreContextSlot(M, M.ctx[context].tous, M.ctx[context].next)
    IN  [M1 EXCEPT !.ctx[context] = FreeContext]

\* The context unlinked from the registry and freed.
UnlinkContext(M, context) ==
    LET next == M.ctx[context].next
        M1 == StoreContextSlot(M, M.ctx[context].tous, next)
        M2 == IF next # NULL
              THEN [M1 EXCEPT !.ctx[next].tous = M.ctx[context].tous]
              ELSE M1
    IN  [M2 EXCEPT !.ctx[context] = FreeContext]

\* A call of the destructor whenever data is present.
FreeAppData_DataOnly(M, context) ==
    IF M.ctx[context].app_data # NULL
    THEN [M EXCEPT !.freed = Append(@, context),
                   !.ctx[context].app_data = NULL]
    ELSE M

\* The application's destructor, called when data and callback are present.
FreeAppData(M, context) ==
    IF M.ctx[context].app_data # NULL /\ M.ctx[context].app_data_free # NULL
    THEN [M EXCEPT !.freed = Append(@, context),
                   !.ctx[context].app_data = NULL]
    ELSE M

\* A guard that never refuses.
ForgetRefuses_Never(M, context) == FALSE

\* A guard that refuses for a CONNECTED context only.
ForgetRefuses_ConnectedOnly(M, context) ==
    M.ctx[context].state = CONN_CONNECTED

\* The guard of otrl_context_forget.
ForgetRefuses(M, context) == M.ctx[context].state # CONN_UNCONNECTED

RECURSIVE otrl_context_forget_fingerprint(_, _, _)
RECURSIVE otrl_context_forget(_, _)
RECURSIVE ForgetFingerprintsLoop(_, _, _)

\* A forget_fingerprint whose sentinel branch does not read the flag.
otrl_context_forget_fingerprint_SentinelAlways(M, fprint, and_maybe_context) ==
    LET context == FingerprintContext(M, fprint) IN
    IF fprint.sentinel
    THEN IF M.ctx[context].state = CONN_UNCONNECTED
         THEN otrl_context_forget(M, context)
         ELSE M
    ELSE IF MayRemove(M, context, fprint.a)
         THEN LET M1 == UnlinkFingerprint(M, fprint.a) IN
              IF /\ M1.ctx[context].state = CONN_UNCONNECTED
                 /\ M1.ctx[context].fingerprint_root.next = NULL
                 /\ and_maybe_context
              THEN otrl_context_forget(M1, context)
              ELSE M1
         ELSE M

otrl_context_forget_fingerprint(M, fprint, and_maybe_context) ==
    LET context == FingerprintContext(M, fprint) IN
    IF fprint.sentinel
    THEN IF M.ctx[context].state = CONN_UNCONNECTED /\ and_maybe_context
         THEN otrl_context_forget(M, context)
         ELSE M
    ELSE IF MayRemove(M, context, fprint.a)
         THEN LET M1 == UnlinkFingerprint(M, fprint.a) IN
              IF /\ M1.ctx[context].state = CONN_UNCONNECTED
                 /\ M1.ctx[context].fingerprint_root.next = NULL
                 /\ and_maybe_context
              THEN otrl_context_forget(M1, context)
              ELSE M1
         ELSE M

\* while (context->fingerprint_root.next) forget it, cascade disabled.
\* fuel counts the iterations left before the loop is taken not to end.
ForgetFingerprintsLoop(M, context, fuel) ==
    IF M.ctx[context].fingerprint_root.next = NULL THEN M
    ELSE IF fuel = 0 THEN [M EXCEPT !.diverged = TRUE]
    ELSE ForgetFingerprintsLoop(
             otrl_context_forget_fingerprint(
                 M, HeapFp(M.ctx[context].fingerprint_root.next), FALSE),
             context, fuel - 1)

otrl_context_forget(M, context) ==
    IF ForgetRefuses(M, context) THEN M
    ELSE
        LET M1 == otrl_context_force_disconnect(M, context)
            M2 == ForgetFingerprintsLoop(
                      M1, context,
                      Cardinality(LiveFingerprints(M1)))
            M3 == [M2 EXCEPT !.ctx[context].username = NullStr,
                             !.ctx[context].accountname = NullStr,
                             !.ctx[context].protocol = NullStr]
            M4 == FreeAppData(M3, context)
        IN  IF M2.diverged THEN M2 ELSE UnlinkContext(M4, context)

----------------------------------------------------------------------------
(* otrl_context_forget_all *)

\* A body that forgets the head without forcing it to UNCONNECTED.
ForgetAllBody_NoForce(M) == otrl_context_forget(M, M.root)

\* The body of the loop: the head forced to UNCONNECTED, then forgotten.
ForgetAllBody(M) ==
    otrl_context_forget(otrl_context_force_disconnect(M, M.root), M.root)

RECURSIVE ForgetAllLoop(_, _)
ForgetAllLoop(M, fuel) ==
    IF M.root = NULL \/ M.diverged THEN M
    ELSE IF fuel = 0 THEN [M EXCEPT !.diverged = TRUE]
    ELSE ForgetAllLoop(ForgetAllBody(M), fuel - 1)

otrl_context_forget_all(M) ==
    ForgetAllLoop(M, Cardinality(LiveContexts(M)))

----------------------------------------------------------------------------
(* The protocol driver (proto.c, message.c): the transitions it makes *)

\* A generated DH key pair.
GeneratedKeypair == [priv |-> 1, pub |-> 1]
FullSesskeys == <<<<1, 1>>, <<1, 1>>>>

\* The driver starts a key exchange: our keys exist, the state is SETUP.
DriverSetup(M, context) ==
    [M EXCEPT !.ctx[context] =
        [@ EXCEPT !.state = CONN_SETUP,
                  !.our_keyid = 1,
                  !.our_dh_key = GeneratedKeypair]]

\* The driver completes a key exchange with the peer whose key has
\* fingerprint entry f of the context's own list, and exchanges messages.
DriverConnect(M, context, f) ==
    [M EXCEPT !.ctx[context] =
        [@ EXCEPT !.state = CONN_CONNECTED,
                  !.active_fingerprint = f,
                  !.their_keyid = 1,
                  !.their_y = 1,
                  !.their_old_y = 1,
                  !.our_keyid = 1,
                  !.our_dh_key = GeneratedKeypair,
                  !.our_old_dh_key = GeneratedKeypair,
                  !.sesskeys = FullSesskeys,
                  !.sessionid = 1,
                  !.numsavedkeys = 1,
                  !.saved_mac_keys = 1,
                  !.lastmessage = 1,
                  !.may_retransmit = 1]]

----------------------------------------------------------------------------
(* What a call leaves *)

\* What the last call did: the operation that changed the memory or
\* called the application ("none" when the call did neither), the contexts
\* it passed to add_app_data, the contexts whose app_data it passed to
\* app_data_free, and whether it returned.
NoCall == [op |-> "none", added |-> <<>>, freed |-> <<>>, done |-> TRUE]

\* The variables after the call op that left memory M.
Becomes(op, M) ==
    /\ context_root' = M.root
    /\ contexts' = M.ctx
    /\ fingerprints' = M.fp
    /\ last' = IF /\ M.root = context_root /\ M.ctx = contexts
                  /\ M.fp = fingerprints
                  /\ M.added = <<>> /\ M.freed = <<>> /\ ~M.diverged
               THEN NoCall
               ELSE [op |-> op, added |-> M.added, freed |-> M.freed,
                     done |-> ~M.diverged]

AllocContexts == {c \in ContextAddrs : contexts[c].alloc}
AllocFingerprints == {f \in FingerprintAddrs : fingerprints[f].alloc}

\* The entries of context c's chain, in order, as heap addresses.
RECURSIVE ChainFrom(_, _, _)
ChainFrom(fp, f, fuel) ==
    IF f = NULL \/ fuel = 0 THEN <<>>
    ELSE <<f>> \o ChainFrom(fp, fp[f].next, fuel - 1)
FingerprintList(ctx, fp, c) ==
    ChainFrom(fp, ctx[c].fingerprint_root.next, Cardinality(FingerprintAddrs))

\* The contexts of the registry, in order, as heap addresses.
RECURSIVE RegistryFrom(_, _, _)
RegistryFrom(ctx, c, fuel) ==
    IF c = NULL \/ fuel = 0 THEN <<>>
    ELSE <<c>> \o RegistryFrom(ctx, ctx[c].next, fuel - 1)
Registry(root, ctx) == RegistryFrom(ctx, root, Cardinality(ContextAddrs))

SeqToSet(s) == {s[i] : i \in 1..Len(s)}

----------------------------------------------------------------------------
(* The calls *)

\* The identity arguments find is called with: every triple of present
\* strings, and triples with one string absent.
FindKeys ==
    Triples \cup {<<NullStr, <<1>>, <<1>>>>, <<<<1>>, NullStr, <<1>>>>,
                  <<<<1>>, <<1>>, NullStr>>}

\* The add_app_data argument find is called with: the application passes
\* NULL for the last identity, a callback that attaches data without a
\* destructor for the one before it, and one that attaches both for the
\* others.
CallbackFor(key) ==
    IF key = TripleSeq[Len(TripleSeq)] THEN "NULL"
    ELSE IF key = TripleSeq[Len(TripleSeq) - 1] THEN "data_only"
    ELSE "attach"

\* The heap has room for what the call allocates.
FindHasRoom(key, add_if_missing) ==
    FindAllocates(Mem, key[1], key[2], key[3], add_if_missing)
        => Cardinality(LiveContexts(Mem)) < MaxContexts

Find(key, add_if_missing, cb) ==
    /\ FindHasRoom(key, add_if_missing)
    /\ LET R == otrl_context_find(Mem, key[1], key[2], key[3],
                                  add_if_missing, cb)
       IN Becomes("find", R.mem)

\* The heap has room for what the call allocates.
FindFingerprintHasRoom(context, fingerprint, add_if_missing) ==
    \/ Cardinality(LiveFingerprints(Mem)) < MaxFingerprints
    \/ ~add_if_missing
    \/ ScanFingerprints(Mem, contexts[context].fingerprint_root.next,
                        fingerprint) # NULL

FindFingerprint(context, fingerprint, add_if_missing) ==
    /\ context \in AllocContexts
    /\ FindFingerprintHasRoom(context, fingerprint, add_if_missing)
    /\ LET R == otrl_context_find_fingerprint(Mem, context, fingerprint,
                                              add_if_missing)
       IN Becomes("find_fingerprint", R.mem)

SetTrust(f, trust) ==
    /\ f \in AllocFingerprints \cup {NULL}
    /\ Becomes("set_trust", otrl_context_set_trust(Mem, f, trust))

SetPresharedSecret(context, secret_len, malloc_ok) ==
    /\ context \in AllocContexts
    /\ Becomes("set_preshared_secret",
               otrl_context_set_preshared_secret(Mem, context, secret_len,
                                                 malloc_ok))

ForceSetup(context) ==
    /\ context \in AllocContexts
    /\ Becomes("force_setup", otrl_context_force_setup(Mem, context))

ForceDisconnect(context) ==
    /\ context \in AllocContexts
    /\ Becomes("force_disconnect",
               otrl_context_force_disconnect(Mem, context))

\* fprint is the sentinel of an allocated context or an allocated entry.
FingerprintPointers ==
    {RootFp(c) : c \in AllocContexts} \cup {HeapFp(f) : f \in AllocFingerprints}

ForgetFingerprint(fprint, and_maybe_context) ==
    /\ fprint \in FingerprintPointers
    /\ Becomes("forget_fingerprint",
               otrl_context_forget_fingerprint(Mem, fprint, and_maybe_context))

Forget(context) ==
    /\ context \in AllocContexts
    /\ Becomes("forget", otrl_context_forget(Mem, context))

ForgetAll ==
    Becomes("forget_all", otrl_context_forget_all(Mem))

HostSetup(context) ==
    /\ context \in AllocContexts
    /\ contexts[context].state = CONN_UNCONNECTED
    /\ Becomes("driver_setup", DriverSetup(Mem, context))

HostConnect(context, f) ==
    /\ context \in AllocContexts
    /\ contexts[context].state = CONN_SETUP
    /\ f \in SeqToSet(FingerprintList(contexts, fingerprints, context))
    /\ Becomes("driver_connect", DriverConnect(Mem, context, f))

----------------------------------------------------------------------------
(* The registry and the fingerprint store *)

\* The memory of a fresh OtrlUserState.
EmptyMem ==
    [root |-> NULL,
     ctx |-> [c \in ContextAddrs |-> FreeContext],
     fp |-> [f \in FingerprintAddrs |-> FreeFingerprint],
     added |-> <<>>, freed |-> <<>>, diverged |-> FALSE]

\* The variables hold memory M, no call made yet.
Holds(M) ==
    /\ context_root = M.root
    /\ contexts = M.ctx
    /\ fingerprints = M.fp
    /\ last = NoCall

Init == Holds(EmptyMem)

Next ==
    \/ \E key \in FindKeys, add_if_missing \in BOOLEAN :
           Find(key, add_if_missing, CallbackFor(key))
    \/ \E context \in ContextAddrs, fingerprint \in {FpBytes1, FpBytes2},
          add_if_missing \in BOOLEAN :
           FindFingerprint(context, fingerprint, add_if_missing)
    \/ \E context \in ContextAddrs : ForceSetup(context)
    \/ \E context \in ContextAddrs : ForceDisconnect(context)
    \/ \E fprint \in FingerprintPointers, and_maybe_context \in BOOLEAN :
           ForgetFingerprint(fprint, and_maybe_context)
    \/ \E context \in ContextAddrs : Forget(context)
    \/ ForgetAll
    \/ \E context \in ContextAddrs : HostSetup(context)
    \/ \E context \in ContextAddrs, f \in FingerprintAddrs :
           HostConnect(context, f)

Spec == Init /\ [][Next]_vars

----------------------------------------------------------------------------
(* The fingerprint store of two contexts, with trust labels *)

\* The context created for identity i in memory M.
Created(M, i) ==
    otrl_context_find(M, TripleSeq[i][1], TripleSeq[i][2], TripleSeq[i][3],
                      TRUE, "attach")

InitFp == Holds(Created(Created(EmptyMem, 2).mem, 1).mem)

NextFp ==
    \/ \E context \in ContextAddrs, fingerprint \in FpValues,
          add_if_missing \in BOOLEAN :
           FindFingerprint(context, fingerprint, add_if_missing)
    \/ \E f \in FingerprintAddrs \cup {NULL},
          trust \in TrustLabels \cup {NullStr} : SetTrust(f, trust)
    \/ \E fprint \in FingerprintPointers, and_maybe_context \in BOOLEAN :
           ForgetFingerprint(fprint, and_maybe_context)
    \/ \E context \in ContextAddrs : ForceSetup(context)
    \/ \E context \in ContextAddrs : ForceDisconnect(context)
    \/ \E context \in ContextAddrs : HostSetup(context)
    \/ \E context \in ContextAddrs, f \in FingerprintAddrs :
           HostConnect(context, f)

SpecFp == InitFp /\ [][NextFp]_vars

----------------------------------------------------------------------------
(* One context, in any state and holding any material *)

\* What the protocol driver may have left in a context: the peer's key id
\* and public values, our key id and key pairs, the session-key matrix, and
\* the conversation bookkeeping.
TheirMaterial ==
    {[keyid |-> 0, y |-> NULL, old_y |-> NULL],
     [keyid |-> 1, y |-> 1, old_y |-> NULL],
     [keyid |-> 1, y |-> NULL, old_y |-> 1],
     [keyid |-> 2, y |-> 1, old_y |-> 1]}
OurMaterial ==
    {[keyid |-> 0, key |-> BlankKeypair, old_key |-> BlankKeypair],
     [keyid |-> 1, key |-> GeneratedKeypair, old_key |-> BlankKeypair],
     [keyid |-> 1, key |-> BlankKeypair, old_key |-> GeneratedKeypair],
     [keyid |-> 2, key |-> GeneratedKeypair, old_key |-> GeneratedKeypair]}
SesskeysMaterial ==
    {BlankSesskeys, FullSesskeys,
     <<<<1, 0>>, <<0, 0>>>>, <<<<0, 1>>, <<0, 0>>>>,
     <<<<0, 0>>, <<1, 0>>>>, <<<<0, 0>>, <<0, 1>>>>}
Bookkeeping ==
    {[generation |-> 0, lastsent |-> 0, otr_offer |-> OFFER_NOT],
     [generation |-> 1, lastsent |-> 1, otr_offer |-> OFFER_SENT]}

\* A context with one fingerprint entry, as the calls create them.
OneContextMem ==
    otrl_context_find_fingerprint(Created(EmptyMem, 1).mem, 1, FpBytes1,
                                  TRUE).mem

InitCtx ==
    \E state \in ConnStates,
       active \in {NULL} \cup LiveFingerprints(OneContextMem),
       their \in TheirMaterial, our \in OurMaterial,
       sesskeys \in SesskeysMaterial, book \in Bookkeeping,
       sessionid \in {0, 1}, saved \in {0, 1}, secret \in {0, 1},
       lastmessage \in {NULL, 1}, may_retransmit \in {0, 1} :
        Holds([OneContextMem EXCEPT !.ctx[1] =
            [@ EXCEPT !.state = state,
                      !.active_fingerprint = active,
                      !.their_keyid = their.keyid,
                      !.their_y = their.y,
                      !.their_old_y = their.old_y,
                      !.our_keyid = our.keyid,
                      !.our_dh_key = our.key,
                      !.our_old_dh_key = our.old_key,
                      !.sesskeys = sesskeys,
                      !.sessionid = sessionid,
                      !.numsavedkeys = saved,
                      !.saved_mac_keys = IF saved = 0 THEN NULL ELSE 1,
                      !.preshared_secret = IF secret = 0 THEN NULL ELSE 1,
                      !.preshared_secret_len = secret,
                      !.generation = book.generation,
                      !.lastsent = book.lastsent,
                      !.otr_offer = book.otr_offer,
                      !.lastmessage = lastmessage,
                      !.may_retransmit = may_retransmit]])

NextCtx ==
    \/ \E context \in ContextAddrs : ForceSetup(context)
    \/ \E context \in ContextAddrs : ForceDisconnect(context)
    \/ \E context \in ContextAddrs, secret_len \in {0, 1},
          malloc_ok \in BOOLEAN :
           SetPresharedSecret(context, secret_len, malloc_ok)

SpecCtx == InitCtx /\ [][NextCtx]_vars

----------------------------------------------------------------------------
(* What the claims are stated with *)

\* The memory a call's memory M is to the next call.
After(M) == [M EXCEPT !.added = <<>>, !.freed = <<>>]

\* The identity of the context at cell c.
TripleOf(ctx, c) == <<ctx[c].username, ctx[c].accountname, ctx[c].protocol>>

\* s is before t in the lexicographic order of byte strings.
BytesLess(s, t) ==
    \E k \in 0..Len(s) :
        /\ k <= Len(t)
        /\ \A i \in 1..k : s[i] = t[i]
        /\ \/ (k = Len(s) /\ k < Len(t))
           \/ (k < Len(s) /\ k < Len(t) /\ s[k + 1] < t[k + 1])

\* a is before b in the lexicographic order of identities.
TripleLess(a, b) ==
    \/ BytesLess(a[1], b[1])
    \/ (a[1] = b[1] /\ BytesLess(a[2], b[2]))
    \/ (a[1] = b[1] /\ a[2] = b[2] /\ BytesLess(a[3], b[3]))

\* The contexts of the registry holding identity key.
Holders(root, ctx, key) ==
    {c \in SeqToSet(Registry(root, ctx)) : TripleOf(ctx, c) = key}

----------------------------------------------------------------------------
(* C1 *)

\* C1: in every reachable state the registry chain is strictly ascending in
\* the lexicographic order of (username, accountname, protocol), so no two
\* contexts of the registry have the same triple; the chain holds exactly
\* the allocated contexts.
C1_RegistrySorted ==
    LET r == Registry(context_root, contexts) IN
    /\ \A i \in 1..(Len(r) - 1) :
           TripleLess(TripleOf(contexts, r[i]), TripleOf(contexts, r[i + 1]))
    /\ \A i, j \in 1..Len(r) :
           i # j => TripleOf(contexts, r[i]) # TripleOf(contexts, r[j])
    /\ SeqToSet(r) = AllocContexts

\* A find has just created the context that is second of three.
C1_Witness ==
    LET r == Registry(context_root, contexts) IN
    /\ Len(r) = 3
    /\ last.op = "find"
    /\ last.added = <<r[2]>>

----------------------------------------------------------------------------
(* C2 *)

\* C2: in every reachable state, a find call with createIfMissing set,
\* for a triple of present strings, returns a context with that triple,
\* and the same call made again returns the same context, reports
\* created = 0, and changes nothing; a find call reports created = 1
\* exactly when creation was asked and the triple was missing; the call
\* invokes add_app_data (when the caller passes one) exactly once, with the
\* new context, when it creates, and never when it finds an existing
\* context.
C2_FindTwice ==
    \A key \in Triples, add_if_missing \in BOOLEAN :
        FindHasRoom(key, add_if_missing) =>
          LET cb == CallbackFor(key)
              R == otrl_context_find(Mem, key[1], key[2], key[3],
                                     add_if_missing, cb)
              missing == Holders(context_root, contexts, key) = {}
              R2 == otrl_context_find(After(R.mem), key[1], key[2], key[3],
                                      add_if_missing, cb)
          IN  /\ (R.addedp = 1) = (missing /\ add_if_missing)
              /\ add_if_missing =>
                   /\ R.ret # NULL
                   /\ Holders(R.mem.root, R.mem.ctx, key) = {R.ret}
                   /\ R2.ret = R.ret
                   /\ R2.addedp = 0
                   /\ R2.mem = After(R.mem)
              /\ R.mem.added =
                   IF missing /\ add_if_missing /\ cb # "NULL"
                   THEN <<R.ret>> ELSE <<>>

\* A find has just created a context beside an existing one and passed it
\* to the application's callback, which attached its data.
C2_Witness ==
    /\ last.op = "find"
    /\ Len(last.added) = 1
    /\ contexts[last.added[1]].app_data # NULL
    /\ Cardinality(AllocContexts) = 2

----------------------------------------------------------------------------
(* C3 *)

\* No chain holds two entries with the same 20 bytes.
NoDuplicateFingerprints(ctx, fp) ==
    \A c \in {a \in ContextAddrs : ctx[a].alloc} :
        LET list == FingerprintList(ctx, fp, c) IN
        \A i, j \in 1..Len(list) :
            i # j => fp[list[i]].fingerprint # fp[list[j]].fingerprint

\* C3: in every reachable state, a findOrCreate call with creation
\* requested whose 20 bytes equal those of an entry of the context's list
\* returns that entry with created = 0 and changes nothing; with bytes not
\* in the list it reports created = 1 and puts a new entry with those bytes
\* and no trust label at the front of the list, the other entries following
\* in their order with their bytes and labels.  No list ever holds two
\* entries with the same bytes.
C3_FindOrCreate ==
    /\ NoDuplicateFingerprints(contexts, fingerprints)
    /\ \A c \in AllocContexts, b \in FpValues :
        FindFingerprintHasRoom(c, b, TRUE) =>
          LET list == FingerprintList(contexts, fingerprints, c)
              hits == {f \in SeqToSet(list) : fingerprints[f].fingerprint = b}
              R == otrl_context_find_fingerprint(Mem, c, b, TRUE)
          IN  IF hits # {}
              THEN /\ R.ret \in hits
                   /\ R.addedp = 0
                   /\ R.mem = Mem
              ELSE /\ R.addedp = 1
                   /\ R.ret \notin SeqToSet(list)
                   /\ FingerprintList(R.mem.ctx, R.mem.fp, c)
                          = <<R.ret>> \o list
                   /\ R.mem.fp[R.ret].fingerprint = b
                   /\ R.mem.fp[R.ret].trust = NullStr
                   /\ \A f \in SeqToSet(list) :
                        /\ R.mem.fp[f].fingerprint = fingerprints[f].fingerprint
                        /\ R.mem.fp[f].trust = fingerprints[f].trust

\* A findOrCreate has just put an unlabelled entry in front of an entry that
\* carries a trust label and differs from it in the last byte only.
C3_Witness ==
    /\ last.op = "find_fingerprint"
    /\ \E c \in AllocContexts :
         LET list == FingerprintList(contexts, fingerprints, c) IN
         /\ Len(list) = 2
         /\ fingerprints[list[1]].fingerprint = FpBytes2
         /\ fingerprints[list[1]].trust = NullStr
         /\ fingerprints[list[2]].fingerprint = FpBytes1
         /\ fingerprints[list[2]].trust # NullStr

----------------------------------------------------------------------------
(* C4, C5 *)

\* What force_setup leaves absent in context cell x.
SetupCleared(x) ==
    /\ x.active_fingerprint = NULL
    /\ x.their_keyid = 0
    /\ x.their_y = NULL
    /\ x.their_old_y = NULL
    /\ \A i, j \in 1..2 : x.sesskeys[i][j] = BlankSession
    /\ x.sessionid = 0
    /\ x.preshared_secret = NULL
    /\ x.preshared_secret_len = 0
    /\ x.numsavedkeys = 0
    /\ x.saved_mac_keys = NULL
    /\ x.lastmessage = NULL
    /\ x.may_retransmit = 0

\* C4: in every reachable state, whatever the context's state and
\* material, forceSetup leaves the context in Setup with active_fingerprint
\* absent, their_keyid 0, both remote public values absent, the four
\* session-key slots blank, the session id zero, the preshared secret
\* absent, the saved-MAC-key count 0 and its buffer released, the last
\* message released and the retransmit flag clear.
C4_ForceSetupClears ==
    \A c \in AllocContexts :
        LET x == otrl_context_force_setup(Mem, c).ctx[c] IN
        x.state = CONN_SETUP /\ SetupCleared(x)

\* A forceSetup has just taken a context that held a fingerprint, our key
\* pairs and a conversation's bookkeeping to Setup.
C4_Witness ==
    /\ last.op = "force_setup"
    /\ \E c \in AllocContexts :
         /\ contexts[c].state = CONN_SETUP
         /\ SetupCleared(contexts[c])
         /\ contexts[c].generation = 1
         /\ contexts[c].our_dh_key = GeneratedKeypair

\* C5: in every reachable state, whatever the context's state and
\* material, forceDisconnect leaves the context in Unconnected with
\* our_keyid 0, both our DH key pairs absent, and everything forceSetup
\* clears cleared.
C5_ForceDisconnectClears ==
    \A c \in AllocContexts :
        LET x == otrl_context_force_disconnect(Mem, c).ctx[c] IN
        /\ x.state = CONN_UNCONNECTED
        /\ x.our_keyid = 0
        /\ x.our_dh_key = BlankKeypair
        /\ x.our_old_dh_key = BlankKeypair
        /\ SetupCleared(x)

\* A forceDisconnect has just taken a context to Unconnected, its
\* fingerprint entry still in its list.
C5_Witness ==
    /\ last.op = "force_disconnect"
    /\ \E c \in AllocContexts :
         /\ contexts[c].state = CONN_UNCONNECTED
         /\ contexts[c].our_keyid = 0
         /\ contexts[c].our_dh_key = BlankKeypair
         /\ contexts[c].our_old_dh_key = BlankKeypair
         /\ SetupCleared(contexts[c])
         /\ contexts[c].fingerprint_root.next # NULL

----------------------------------------------------------------------------
(* C6 *)

\* C6: in every reachable state, forgetFingerprint on the entry that is the
\* active_fingerprint of a Connected context, with the cascade flag set or
\* unset, changes nothing: not the context's list (entries, order, trust
\* labels), not its active_fingerprint or state, not the registry.
C6_ActiveFingerprintKept ==
    \A f \in AllocFingerprints, and_maybe_context \in BOOLEAN :
        LET c == fingerprints[f].context IN
        (contexts[c].state = CONN_CONNECTED
            /\ contexts[c].active_fingerprint = f)
        => otrl_context_forget_fingerprint(Mem, HeapFp(f), and_maybe_context)
               = Mem

\* The last call changed nothing, and a Connected context has a list of two
\* entries, the active one labelled.
C6_Witness ==
    /\ last.op = "none"
    /\ \E c \in AllocContexts :
         /\ contexts[c].state = CONN_CONNECTED
         /\ Len(FingerprintList(contexts, fingerprints, c)) = 2
         /\ contexts[c].active_fingerprint
                \in SeqToSet(FingerprintList(contexts, fingerprints, c))
         /\ fingerprints[contexts[c].active_fingerprint].trust # NullStr

----------------------------------------------------------------------------
(* C7 *)

\* C7: in every reachable state, forget on a context whose state is Setup
\* or Connected changes nothing (the registry, every field of the context,
\* its fingerprint list) and does not call the application-data
\* destructor.
C7_ForgetRefused ==
    \A c \in AllocContexts :
        contexts[c].state \in {CONN_SETUP, CONN_CONNECTED}
        => otrl_context_forget(Mem, c) = Mem

\* The last call changed nothing, and the registry holds a Setup context
\* and a Connected context, both with application data and a destructor.
C7_Witness ==
    /\ last.op = "none"
    /\ \E c, d \in AllocContexts :
         /\ contexts[c].state = CONN_SETUP
         /\ contexts[d].state = CONN_CONNECTED
         /\ contexts[c].app_data # NULL /\ contexts[c].app_data_free # NULL
         /\ contexts[d].app_data # NULL /\ contexts[d].app_data_free # NULL

----------------------------------------------------------------------------
(* C8 *)

\* Sequence s without its elements equal to x.
RECURSIVE Without(_, _)
Without(s, x) ==
    IF s = <<>> THEN <<>>
    ELSE IF Head(s) = x THEN Without(Tail(s), x)
    ELSE <<Head(s)>> \o Without(Tail(s), x)

\* C8: in every reachable state, forget on an Unconnected context with any
\* number of fingerprints, wherever it is in the registry, returns, frees
\* the context and every entry of its list, and leaves the registry with
\* the other contexts in the same order; every other context and every
\* other fingerprint is as before, but for the predecessor's link, which
\* goes to the successor, and the successor's back-reference, which is the
\* slot that now links to it.
C8_ForgetRemoves ==
    \A c \in AllocContexts :
        contexts[c].state = CONN_UNCONNECTED =>
          LET M2 == otrl_context_forget(Mem, c)
              r == Registry(context_root, contexts)
              list == FingerprintList(contexts, fingerprints, c)
              r2 == Registry(M2.root, M2.ctx)
          IN  /\ ~M2.diverged
              /\ r2 = Without(r, c)
              /\ M2.ctx[c] = FreeContext
              /\ \A f \in FingerprintAddrs :
                    M2.fp[f] = IF f \in SeqToSet(list) THEN FreeFingerprint
                               ELSE fingerprints[f]
              /\ \A d \in ContextAddrs \ {c} :
                    M2.ctx[d] =
                      IF contexts[c].next = d
                      THEN [contexts[d] EXCEPT !.tous = contexts[c].tous]
                      ELSE IF contexts[d].alloc /\ contexts[d].next = c
                      THEN [contexts[d] EXCEPT !.next = contexts[c].next]
                      ELSE contexts[d]
              /\ \A d \in SeqToSet(r2) :
                    LoadContextSlot(M2, M2.ctx[d].tous) = d

\* A forget has just removed the middle one of three contexts and called
\* its destructor; the successor's back-reference is the first one's link.
C8_Witness ==
    /\ last.op = "forget"
    /\ Len(last.freed) = 1
    /\ LET r == Registry(context_root, contexts) IN
       /\ Len(r) = 2
       /\ TripleLess(TripleOf(contexts, r[1]), TripleSeq[last.freed[1]])
       /\ TripleLess(TripleSeq[last.freed[1]], TripleOf(contexts, r[2]))
       /\ contexts[r[2]].tous = ContextNextSlot(r[1])

----------------------------------------------------------------------------
(* C9 *)

\* C9: in every reachable state, whatever the contexts' states,
\* fingerprints and active fingerprints, drainAll returns and leaves the
\* registry empty, every context and every fingerprint freed.
C9_DrainAllEmpties ==
    LET M2 == otrl_context_forget_all(Mem) IN
    /\ ~M2.diverged
    /\ M2.root = NULL
    /\ \A c \in ContextAddrs : M2.ctx[c] = FreeContext
    /\ \A f \in FingerprintAddrs : M2.fp[f] = FreeFingerprint

\* A drainAll has just emptied a registry of three contexts, calling the
\* destructor of each that had one.
C9_Witness ==
    /\ last.op = "forget_all"
    /\ last.done
    /\ Len(last.freed) >= 2
    /\ context_root = NULL

----------------------------------------------------------------------------
(* C10 *)

\* C10: in every reachable state, whatever the context's state and
\* material, the memory after forceSetup followed by forceDisconnect is the
\* memory after forceDisconnect alone.
C10_SetupThenDisconnect ==
    \A c \in AllocContexts :
        otrl_context_force_disconnect(otrl_context_force_setup(Mem, c), c)
            = otrl_context_force_disconnect(Mem, c)

\* A forceSetup has just acted on a context that keeps our two key pairs
\* and our key id: the state from which forceDisconnect follows.
C10_Witness ==
    /\ last.op = "force_setup"
    /\ \E c \in AllocContexts :
         /\ contexts[c].state = CONN_SETUP
         /\ contexts[c].our_keyid = 2
         /\ contexts[c].our_dh_key = GeneratedKeypair
         /\ contexts[c].our_old_dh_key = GeneratedKeypair

----------------------------------------------------------------------------
(* C11 *)

\* C11: in every reachable state, whatever the context's state and
\* material, forceSetup applied to the result of forceSetup changes
\* nothing, and forceDisconnect applied to the result of forceDisconnect
\* changes nothing; the first ends in Setup and the second in Unconnected,
\* with nothing that the operation releases left present.
C11_ForceIdempotent ==
    \A c \in AllocContexts :
        LET S == otrl_context_force_setup(Mem, c)
            D == otrl_context_force_disconnect(Mem, c)
        IN  /\ otrl_context_force_setup(S, c) = S
            /\ S.ctx[c].state = CONN_SETUP
            /\ SetupCleared(S.ctx[c])
            /\ otrl_context_force_disconnect(D, c) = D
            /\ D.ctx[c].state = CONN_UNCONNECTED
            /\ SetupCleared(D.ctx[c])
            /\ D.ctx[c].our_dh_key = BlankKeypair
            /\ D.ctx[c].our_old_dh_key = BlankKeypair

\* A forceDisconnect has just acted, and a second forceDisconnect and a
\* forceSetup followed by a second forceSetup are both there to compare: the
\* context kept its bookkeeping and its fingerprint.
C11_Witness ==
    /\ last.op = "force_disconnect"
    /\ \E c \in AllocContexts :
         /\ otrl_context_force_disconnect(Mem, c) = Mem
         /\ otrl_context_force_setup(Mem, c) # Mem
         /\ contexts[c].lastsent = 1
         /\ contexts[c].fingerprint_root.next # NULL

----------------------------------------------------------------------------
(* C12 *)

\* C12: in every reachable state, the back-reference of the first context
\* of the registry is the registry head and that of every other context is
\* its predecessor's forward link; the back-reference of the first entry of
\* a context's fingerprint list is the sentinel's forward link and that of
\* every other entry is its predecessor entry's forward link.  Every
\* allocated context is in the registry and every allocated entry is in the
\* list of its context.
C12_BackReferences ==
    LET r == Registry(context_root, contexts) IN
    /\ SeqToSet(r) = AllocContexts
    /\ \A i \in 1..Len(r) :
         /\ contexts[r[i]].tous =
              IF i = 1 THEN ContextRootSlot ELSE ContextNextSlot(r[i - 1])
         /\ LoadContextSlot(Mem, contexts[r[i]].tous) = r[i]
    /\ \A f \in AllocFingerprints :
         /\ fingerprints[f].context \in AllocContexts
         /\ f \in SeqToSet(FingerprintList(contexts, fingerprints,
                                           fingerprints[f].context))
    /\ \A c \in AllocContexts :
         LET list == FingerprintList(contexts, fingerprints, c) IN
         \A i \in 1..Len(list) :
            fingerprints[list[i]].tous =
              IF i = 1 THEN FingerprintRootNextSlot(c)
              ELSE FingerprintNextSlot(list[i - 1])

\* A findOrCreate has just put a new entry in front of the entry of the
\* second of three contexts.
C12_Witness ==
    LET r == Registry(context_root, contexts) IN
    /\ last.op = "find_fingerprint"
    /\ Len(r) = 3
    /\ Len(FingerprintList(contexts, fingerprints, r[2])) = 2

----------------------------------------------------------------------------
(* C13 *)

\* C13: in every reachable state (the driver connecting a context only to
\* an entry of the context's own list), an active_fingerprint that is set
\* is an allocated entry of that context's fingerprint list; a
\* forgetFingerprint call on any entry of a Connected context, with either
\* flag, leaves the active entry in the list; and forceSetup and
\* forceDisconnect leave active_fingerprint absent.
C13_ActiveFingerprintPresent ==
    \A c \in AllocContexts :
        LET a == contexts[c].active_fingerprint
            list == FingerprintList(contexts, fingerprints, c)
        IN  /\ a # NULL =>
                 /\ a \in AllocFingerprints
                 /\ a \in SeqToSet(list)
            /\ (contexts[c].state = CONN_CONNECTED /\ a # NULL) =>
                 \A f \in SeqToSet(list), and_maybe_context \in BOOLEAN :
                    LET M2 == otrl_context_forget_fingerprint(
                                  Mem, HeapFp(f), and_maybe_context)
                    IN  /\ M2.ctx[c].alloc
                        /\ M2.ctx[c].active_fingerprint = a
                        /\ M2.fp[a].alloc
                        /\ M2.fp[a].fingerprint = fingerprints[a].fingerprint
                        /\ M2.fp[a].trust = fingerprints[a].trust
                        /\ a \in SeqToSet(FingerprintList(M2.ctx, M2.fp, c))
            /\ otrl_context_force_setup(Mem, c).ctx[c].active_fingerprint
                   = NULL
            /\ otrl_context_force_disconnect(Mem, c).ctx[c].active_fingerprint
                   = NULL

\* A forgetFingerprint has just removed the other entry of the only
\* context, which is Connected and keeps its active entry.
C13_Witness ==
    /\ last.op = "forget_fingerprint"
    /\ Cardinality(AllocContexts) = 1
    /\ \E c \in AllocContexts :
         /\ contexts[c].state = CONN_CONNECTED
         /\ FingerprintList(contexts, fingerprints, c)
                = <<contexts[c].active_fingerprint>>

----------------------------------------------------------------------------
(* C14 *)

\* C14: in every reachable state, a context in Setup or Connected is still
\* allocated and in the registry after a forget call on it and after a
\* forgetFingerprint call on any entry or sentinel, with either flag; and
\* an iteration of drainAll destroys the head only, which it has forced to
\* Unconnected, every other context staying allocated in its state.
C14_DestroyedOnlyUnconnected ==
    /\ \A c \in AllocContexts :
         contexts[c].state # CONN_UNCONNECTED =>
           /\ LET M2 == otrl_context_forget(Mem, c) IN
              /\ M2.ctx[c].alloc
              /\ c \in SeqToSet(Registry(M2.root, M2.ctx))
           /\ \A p \in FingerprintPointers, and_maybe_context \in BOOLEAN :
                LET M2 == otrl_context_forget_fingerprint(
                              Mem, p, and_maybe_context)
                IN  /\ M2.ctx[c].alloc
                    /\ M2.ctx[c].state = contexts[c].state
                    /\ c \in SeqToSet(Registry(M2.root, M2.ctx))
    /\ context_root # NULL =>
         LET B == ForgetAllBody(Mem) IN
         /\ otrl_context_force_disconnect(Mem, context_root)
                .ctx[context_root].state = CONN_UNCONNECTED
         /\ ~B.ctx[context_root].alloc
         /\ \A d \in AllocContexts \ {context_root} :
              /\ B.ctx[d].alloc
              /\ B.ctx[d].state = contexts[d].state

\* A forgetFingerprint cascade has just destroyed a context and called its
\* destructor, beside a Setup context and a Connected context that stay.
C14_Witness ==
    /\ last.op = "forget_fingerprint"
    /\ Len(last.freed) = 1
    /\ \E c, d \in AllocContexts :
         /\ contexts[c].state = CONN_SETUP
         /\ contexts[d].state = CONN_CONNECTED

----------------------------------------------------------------------------
(* C15 *)

\* C15: in every reachable state, a forgetFingerprint call destroys the
\* owning context exactly when the context is Unconnected, the cascade flag
\* is set, and the entry is the sentinel or the only real entry of the
\* list.  In every other case the registry is as before: a sentinel call
\* changes nothing, a call on an entry that may not be removed changes
\* nothing, and a call on a removable entry frees that entry and leaves the
\* list with the other entries in their order, with their bytes and labels.
C15_CascadeExactly ==
    \A p \in FingerprintPointers, and_maybe_context \in BOOLEAN :
        LET c == FingerprintContext(Mem, p)
            list == FingerprintList(contexts, fingerprints, c)
            M2 == otrl_context_forget_fingerprint(Mem, p, and_maybe_context)
            cascade == /\ contexts[c].state = CONN_UNCONNECTED
                       /\ and_maybe_context
                       /\ (p.sentinel \/ list = <<p.a>>)
        IN  /\ ~M2.diverged
            /\ (~M2.ctx[c].alloc) = cascade
            /\ cascade =>
                 /\ Registry(M2.root, M2.ctx)
                        = Without(Registry(context_root, contexts), c)
                 /\ \A f \in SeqToSet(list) : ~M2.fp[f].alloc
            /\ ~cascade =>
                 /\ Registry(M2.root, M2.ctx)
                        = Registry(context_root, contexts)
                 /\ IF p.sentinel \/ ~MayRemove(Mem, c, p.a)
                    THEN M2 = Mem
                    ELSE /\ ~M2.fp[p.a].alloc
                         /\ FingerprintList(M2.ctx, M2.fp, c)
                                = Without(list, p.a)
                         /\ \A f \in SeqToSet(list) \ {p.a} :
                              /\ M2.fp[f].fingerprint
                                     = fingerprints[f].fingerprint
                              /\ M2.fp[f].trust = fingerprints[f].trust
                         /\ M2.ctx[c].state = contexts[c].state

\* A forgetFingerprint has just removed one entry of an Unconnected
\* context, whose other entry stays with its trust label, beside a second
\* context.
C15_Witness ==
    /\ last.op = "forget_fingerprint"
    /\ Cardinality(AllocContexts) = 2
    /\ \E c \in AllocContexts :
         LET list == FingerprintList(contexts, fingerprints, c) IN
         /\ contexts[c].state = CONN_UNCONNECTED
         /\ Len(list) = 1
         /\ fingerprints[list[1]].trust # NullStr
         /\ Cardinality(AllocFingerprints) = 1

----------------------------------------------------------------------------
(* C16 *)

\* C16: in every reachable state, whatever the context's state and
\* material, forceSetup leaves our current and previous DH key pairs,
\* our_keyid and the context's username, accountname and protocol as they
\* were.
C16_ForceSetupKeepsOurs ==
    \A c \in AllocContexts :
        LET x == otrl_context_force_setup(Mem, c).ctx[c] IN
        /\ x.our_dh_key = contexts[c].our_dh_key
        /\ x.our_old_dh_key = contexts[c].our_old_dh_key
        /\ x.our_keyid = contexts[c].our_keyid
        /\ x.username = contexts[c].username
        /\ x.accountname = contexts[c].accountname
        /\ x.protocol = contexts[c].protocol

\* A forceSetup has just acted on a context that holds our previous key
\* pair only, with our key id 1, and its identity.
C16_Witness ==
    /\ last.op = "force_setup"
    /\ \E c \in AllocContexts :
         /\ contexts[c].our_keyid = 1
         /\ contexts[c].our_dh_key = BlankKeypair
         /\ contexts[c].our_old_dh_key = GeneratedKeypair
         /\ TripleOf(contexts, c) = TripleSeq[c]

----------------------------------------------------------------------------
(* C17 *)

\* C17 as stated: after forceSetup or forceDisconnect each of generation,
\* lastsent, lastmessage, may_retransmit and otr_offer has its
\* creation-time value (0, 0, absent, 0, no offer).
C17_AllFiveWiped ==
    \A c \in AllocContexts :
        LET S == otrl_context_force_setup(Mem, c).ctx[c]
            D == otrl_context_force_disconnect(Mem, c).ctx[c]
        IN  \A x \in {S, D} :
              /\ x.generation = 0
              /\ x.lastsent = 0
              /\ x.lastmessage = NULL
              /\ x.may_retransmit = 0
              /\ x.otr_offer = OFFER_NOT

\* C17, amended: in every reachable state, after forceSetup or
\* forceDisconnect lastmessage is absent and may_retransmit is 0, whatever
\* they held before, and generation, lastsent and otr_offer hold what they
\* held before the call.
C17_TwoWipedThreeKept ==
    \A c \in AllocContexts :
        LET S == otrl_context_force_setup(Mem, c).ctx[c]
            D == otrl_context_force_disconnect(Mem, c).ctx[c]
        IN  \A x \in {S, D} :
              /\ x.lastmessage = NULL
              /\ x.may_retransmit = 0
              /\ x.generation = contexts[c].generation
              /\ x.lastsent = contexts[c].lastsent
              /\ x.otr_offer = contexts[c].otr_offer

\* A forceDisconnect has just acted on a context whose generation, lastsent
\* and otr_offer are not the creation-time values.
C17_Witness ==
    /\ last.op = "force_disconnect"
    /\ \E c \in AllocContexts :
         /\ contexts[c].state = CONN_UNCONNECTED
         /\ contexts[c].lastmessage = NULL
         /\ contexts[c].may_retransmit = 0
         /\ contexts[c].generation = 1
         /\ contexts[c].lastsent = 1
         /\ contexts[c].otr_offer = OFFER_SENT

----------------------------------------------------------------------------
(* C18 *)

\* Every context allocated before and after the call that left M2 has the
\* state it had, and a context the call created is Unconnected.
StatesKept(M2) ==
    \A d \in ContextAddrs :
        M2.ctx[d].alloc =>
            M2.ctx[d].state = IF contexts[d].alloc THEN contexts[d].state
                              ELSE CONN_UNCONNECTED

\* The call that left M2 moved no context to Connected.
NoneConnected(M2) ==
    \A d \in ContextAddrs :
        (M2.ctx[d].alloc /\ M2.ctx[d].state = CONN_CONNECTED)
        => (contexts[d].alloc /\ contexts[d].state = CONN_CONNECTED)

\* C18: in every reachable state, a call of find, findOrCreate, setTrust,
\* setPresharedSecret or forgetFingerprint, with any arguments, leaves the
\* state of every context that survives it as it was (a context that find
\* creates is Unconnected); forceSetup ends in Setup and forceDisconnect in
\* Unconnected, the other contexts keeping their states; and neither these
\* nor forget nor drainAll move a context to Connected.
C18_OnlyForceChangesState ==
    /\ \A key \in Triples, add_if_missing \in BOOLEAN :
         FindHasRoom(key, add_if_missing) =>
           StatesKept(otrl_context_find(Mem, key[1], key[2], key[3],
                                        add_if_missing,
                                        CallbackFor(key)).mem)
    /\ \A c \in AllocContexts, b \in FpValues, add_if_missing \in BOOLEAN :
         FindFingerprintHasRoom(c, b, add_if_missing) =>
           StatesKept(otrl_context_find_fingerprint(Mem, c, b,
                                                    add_if_missing).mem)
    /\ \A f \in AllocFingerprints \cup {NULL},
          trust \in TrustLabels \cup {NullStr} :
         StatesKept(otrl_context_set_trust(Mem, f, trust))
    /\ \A c \in AllocContexts, secret_len \in {0, 1}, malloc_ok \in BOOLEAN :
         StatesKept(otrl_context_set_preshared_secret(Mem, c, secret_len,
                                                      malloc_ok))
    /\ \A p \in FingerprintPointers, and_maybe_context \in BOOLEAN :
         StatesKept(otrl_context_forget_fingerprint(Mem, p,
                                                    and_maybe_context))
    /\ \A c \in AllocContexts :
         LET S == otrl_context_force_setup(Mem, c)
             D == otrl_context_force_disconnect(Mem, c)
         IN  /\ S.ctx[c].state = CONN_SETUP
             /\ D.ctx[c].state = CONN_UNCONNECTED
             /\ \A d \in AllocContexts \ {c} :
                  /\ S.ctx[d].state = contexts[d].state
                  /\ D.ctx[d].state = contexts[d].state
             /\ NoneConnected(otrl_context_forget(Mem, c))
    /\ NoneConnected(otrl_context_forget_all(Mem))

\* A setTrust has just labelled an entry of a Connected context, beside a
\* context in Setup.
C18_Witness ==
    /\ last.op = "set_trust"
    /\ \E f \in AllocFingerprints, d \in AllocContexts :
         /\ fingerprints[f].trust # NullStr
         /\ contexts[fingerprints[f].context].state = CONN_CONNECTED
         /\ contexts[d].state = CONN_SETUP

----------------------------------------------------------------------------
(* C19 *)

\* The destructor calls of the call that left M2 are one for each context
\* the call destroyed that had both data and destructor, and no other; the
\* contexts that stay keep their data and destructor.
DestructorCalls(M2) ==
    /\ SeqToSet(M2.freed) =
         {d \in AllocContexts :
             /\ ~M2.ctx[d].alloc
             /\ contexts[d].app_data # NULL
             /\ contexts[d].app_data_free # NULL}
    /\ Len(M2.freed) = Cardinality(SeqToSet(M2.freed))
    /\ \A d \in AllocContexts :
         M2.ctx[d].alloc =>
            /\ M2.ctx[d].app_data = contexts[d].app_data
            /\ M2.ctx[d].app_data_free = contexts[d].app_data_free

\* C19: in every reachable state, a call of forget, forgetFingerprint (any
\* entry or sentinel, either flag) or drainAll invokes the destructor once
\* for each context it destroys that has both data and destructor, and for
\* no other context; forceSetup and forceDisconnect invoke it for none.  A
\* context that stays in the registry keeps its data.
C19_DestructorOnce ==
    /\ \A c \in AllocContexts :
         /\ DestructorCalls(otrl_context_forget(Mem, c))
         /\ otrl_context_force_setup(Mem, c).freed = <<>>
         /\ otrl_context_force_disconnect(Mem, c).freed = <<>>
         /\ otrl_context_force_setup(Mem, c).ctx[c].app_data
                = contexts[c].app_data
         /\ otrl_context_force_disconnect(Mem, c).ctx[c].app_data
                = contexts[c].app_data
    /\ \A p \in FingerprintPointers, and_maybe_context \in BOOLEAN :
         DestructorCalls(otrl_context_forget_fingerprint(Mem, p,
                                                         and_maybe_context))
    /\ DestructorCalls(otrl_context_forget_all(Mem))

\* A forget has just destroyed a context and called its destructor; a
\* context with data and destructor and a context with data and no
\* destructor stay.
C19_Witness ==
    /\ last.op = "forget"
    /\ Len(last.freed) = 1
    /\ \E c, d \in AllocContexts :
         /\ contexts[c].app_data # NULL /\ contexts[c].app_data_free # NULL
         /\ contexts[d].app_data # NULL /\ contexts[d].app_data_free = NULL

----------------------------------------------------------------------------
(* C20 *)

\* The entries that are allocated before and after the call that left M2
\* have the bytes and the trust label they had.
LabelsKept(M2) ==
    \A g \in AllocFingerprints :
        M2.fp[g].alloc =>
            /\ M2.fp[g].fingerprint = fingerprints[g].fingerprint
            /\ M2.fp[g].trust = fingerprints[g].trust

\* Every context's fingerprint list is, in M2, what it is now.
ListsKept(M2) ==
    /\ M2.fp = fingerprints
    /\ \A c \in AllocContexts :
         /\ M2.ctx[c].alloc
         /\ FingerprintList(M2.ctx, M2.fp, c)
                = FingerprintList(contexts, fingerprints, c)

\* C20: in every reachable state, forceSetup, forceDisconnect and
\* setPresharedSecret leave every fingerprint list (entries, order, trust
\* labels) as it was; findOrCreate that finds an entry leaves everything as
\* it was, and one that creates an entry leaves the labels of the others;
\* find and forgetFingerprint leave the labels of the entries that stay;
\* setTrust on an entry sets that entry's label and leaves every other
\* entry, every list and every context as they were.
C20_TrustSurvives ==
    /\ \A c \in AllocContexts :
         /\ ListsKept(otrl_context_force_setup(Mem, c))
         /\ ListsKept(otrl_context_force_disconnect(Mem, c))
         /\ \A secret_len \in {0, 1}, malloc_ok \in BOOLEAN :
              ListsKept(otrl_context_set_preshared_secret(
                            Mem, c, secret_len, malloc_ok))
         /\ \A b \in FpValues, add_if_missing \in BOOLEAN :
              FindFingerprintHasRoom(c, b, add_if_missing) =>
                LET R == otrl_context_find_fingerprint(Mem, c, b,
                                                       add_if_missing)
                IN  /\ LabelsKept(R.mem)
                    /\ R.addedp = 0 => ListsKept(R.mem)
    /\ \A key \in Triples, add_if_missing \in BOOLEAN :
         FindHasRoom(key, add_if_missing) =>
           ListsKept(otrl_context_find(Mem, key[1], key[2], key[3],
                                       add_if_missing, CallbackFor(key)).mem)
    /\ \A p \in FingerprintPointers, and_maybe_context \in BOOLEAN :
         LabelsKept(otrl_context_forget_fingerprint(Mem, p,
                                                    and_maybe_context))
    /\ \A f \in AllocFingerprints, trust \in TrustLabels \cup {NullStr} :
         LET M2 == otrl_context_set_trust(Mem, f, trust) IN
         /\ M2.fp = [fingerprints EXCEPT ![f].trust = trust]
         /\ M2.ctx = contexts
         /\ M2.root = context_root

\* A forceDisconnect has just taken to Unconnected a context whose list is
\* an unlabelled entry followed by a labelled one.
C20_Witness ==
    /\ last.op = "force_disconnect"
    /\ \E c \in AllocContexts :
         LET list == FingerprintList(contexts, fingerprints, c) IN
         /\ contexts[c].state = CONN_UNCONNECTED
         /\ Len(list) = 2
         /\ fingerprints[list[1]].trust = NullStr
         /\ fingerprints[list[2]].trust # NullStr

====
